---- MODULE Spec2Model ----
(***************************************************************************)
(* Model of prospect_cleaner: the two field validators (NameValidator,     *)
(* CompanyValidator) as operators, and the pipeline of                     *)
(* ProspectDataCleaner.clean (row tasks behind an asyncio.Semaphore, the   *)
(* _save_loop task and the write_csv executor thread) as a state machine.  *)
(*                                                                         *)
(* Conventions                                                             *)
(*  - a Python value is a record [t, s, v]: t its type, s the characters   *)
(*    of a str, v the number of a float/bool/list length;                  *)
(*  - a str is a sequence of symbols; the symbol "SA" stands for one legal *)
(*    suffix word of _basic_clean's patterns (SA, SARL, GmbH, Ltd, ...);   *)
(*  - a confidence returned by a validator is an integer number of         *)
(*    hundredths (0.73 is 73); a confidence read from the service's JSON   *)
(*    is an integer number of ten-thousandths (0.7231 is 7231).            *)
(***************************************************************************)
EXTENDS Integers, Sequences, FiniteSets, TLC

\* ------------------------------------------------------------------ bounds
MaxRows == 2          \* rows of the input table
MaxCapacity == 2      \* largest settings.max_concurrency tried
MaxBatch == 2         \* largest settings.batch_size tried
MaxPersists == 2      \* intermediate persists are counted up to this many

\* the run of 12 rows through a gate of 3 with a batch threshold of 5
ScenarioRows == 12
ScenarioCapacity == 3
ScenarioBatch == 5

\* ------------------------------------------------------------ Python values
Str(s) == [t |-> "str", s |-> s, v |-> 0]
NaN == [t |-> "float", s |-> <<>>, v |-> 0]      \* an empty CSV cell
Num(n) == [t |-> "num", s |-> <<>>, v |-> n]     \* JSON number, in 1/10000
JNull == [t |-> "null", s |-> <<>>, v |-> 0]     \* JSON null
JBool(b) == [t |-> "bool", s |-> <<>>, v |-> IF b THEN 1 ELSE 0]
JList(n) == [t |-> "list", s |-> <<>>, v |-> n]  \* JSON list of n URL strings
Absent == [t |-> "absent", s |-> <<>>, v |-> 0]  \* key not in the JSON object
Empty == Str(<<>>)

isinstance_str(x) == x.t = "str"

\* Python truthiness of a value (bool(float('nan')) is True).
Truthy(x) ==
  CASE x.t = "str" -> x.s # <<>>
    [] x.t = "float" -> TRUE
    [] x.t = "num" -> x.v # 0
    [] x.t = "bool" -> x.v = 1
    [] x.t = "list" -> x.v > 0
    [] OTHER -> FALSE

\* `x or ""`
OrEmpty(x) == IF Truthy(x) THEN x ELSE Empty

\* dict.get(key, default) and `key in dict` on a parsed JSON object
Get(data, key, default) == IF data[key].t = "absent" THEN default ELSE data[key]
HasKey(data, key) == data[key].t # "absent"

\* ------------------------------------------------------------------ strings
Whitespace == {" "}
Suffixes == {"SA"}

RECURSIVE LStrip(_)
LStrip(s) == IF s # <<>> /\ Head(s) \in Whitespace THEN LStrip(Tail(s)) ELSE s

RECURSIVE RStrip(_)
RStrip(s) ==
  IF s # <<>> /\ s[Len(s)] \in Whitespace
  THEN RStrip(SubSeq(s, 1, Len(s) - 1)) ELSE s

\* str.strip()
Strip(s) == RStrip(LStrip(s))

LowerChar(c) == IF c = "A" THEN "a" ELSE IF c = "B" THEN "b" ELSE c
\* str.lower()
Lower(s) == [i \in 1..Len(s) |-> LowerChar(s[i])]

\* positions of character c in s
Positions(s, c) == {i \in 1..Len(s) : s[i] = c}
Max(S) == CHOOSE m \in S : \A o \in S : o <= m
Min(S) == CHOOSE m \in S : \A o \in S : m <= o

\* s.split(c)[-1] and s.split(c)[0]
SplitLast(s, c) ==
  IF Positions(s, c) = {} THEN s ELSE SubSeq(s, Max(Positions(s, c)) + 1, Len(s))
SplitFirst(s, c) ==
  IF Positions(s, c) = {} THEN s ELSE SubSeq(s, 1, Min(Positions(s, c)) - 1)

\* re.sub(r"[^a-z0-9]", "", s)
RECURSIVE AlnumOnly(_)
AlnumOnly(s) ==
  IF s = <<>> THEN <<>>
  ELSE IF Head(s) \in {"a", "b"} THEN <<Head(s)>> \o AlnumOnly(Tail(s))
  ELSE AlnumOnly(Tail(s))

\* `a in b` for strings
IsSubstr(a, b) ==
  \E i \in 0..(Len(b) - Len(a)) : SubSeq(b, i + 1, i + Len(a)) = a

\* a rounding that drops the fraction
CeilDiv_floor(n, d) == n \div d

\* ceil(n / d) for d > 0
CeilDiv(n, d) == -((-n) \div d)
Clamp(x, lo, hi) == IF x < lo THEN lo ELSE IF x > hi THEN hi ELSE x

\* ---------------------------------------------------- difflib.SequenceMatcher
\* all matching blocks a[i..i+k-1] = b[j..j+k-1] inside the two windows
Blocks(a, b, alo, ahi, blo, bhi) ==
  {m \in (alo..ahi) \X (blo..bhi) \X (1..(ahi - alo + 1)) :
     /\ m[1] + m[3] - 1 <= ahi
     /\ m[2] + m[3] - 1 <= bhi
     /\ \A d \in 0..(m[3] - 1) : a[m[1] + d] = b[m[2] + d]}

\* find_longest_match: longest, then earliest in a, then earliest in b
LongestMatch(S) ==
  CHOOSE m \in S : \A o \in S :
    \/ m[3] > o[3]
    \/ m[3] = o[3] /\ m[1] < o[1]
    \/ m[3] = o[3] /\ m[1] = o[1] /\ m[2] <= o[2]

\* get_matching_blocks: total size of the blocks, found recursively left and
\* right of the longest match
RECURSIVE MatchCount(_, _, _, _, _, _)
MatchCount(a, b, alo, ahi, blo, bhi) ==
  LET S == Blocks(a, b, alo, ahi, blo, bhi) IN
  IF S = {} THEN 0
  ELSE LET m == LongestMatch(S) IN
       m[3] + MatchCount(a, b, alo, m[1] - 1, blo, m[2] - 1)
            + MatchCount(a, b, m[1] + m[3], ahi, m[2] + m[3], bhi)

\* NameValidator._similarity: ratio() = 2*M/T as the pair <<2M, T>>; 1.0 when
\* both strings are empty
NameValidator_similarity(a, b) ==
  LET la == Lower(a)
      lb == Lower(b)
      T == Len(la) + Len(lb)
  IN IF T = 0 THEN <<1, 1>>
     ELSE <<2 * MatchCount(la, lb, 1, Len(la), 1, Len(lb)), T>>

\* NameValidator._calibrate(base, original, cleaned), base in 1/10000:
\*   raw = clamp(base + sim*0.2 - (1-sim)*0.4, 0, 1);  ceil(raw*100)/100
\* with sim = num/den, raw*10000*den = base*den + 6000*num - 4000*den
NameValidator_calibrate(base, original, cleaned) ==
  LET sim == NameValidator_similarity(original, cleaned)
      num == sim[1]
      den == sim[2]
      raw == Clamp(base * den + 6000 * num - 4000 * den, 0, 10000 * den)
  IN CeilDiv(raw, 100 * den)

\* CompanyValidator._calibrate(conf, citations, domain_match, unknown_flag),
\* conf in 1/10000; computed in 1/100000 so that conf*0.3 stays an integer
CompanyValidator_calibrate(conf, citations, domain_match, unknown_flag) ==
  LET bonus == (IF citations < 4 THEN citations ELSE 4) * 2500
               + (IF domain_match THEN 10000 ELSE 0)
      c == IF unknown_flag THEN 3 * conf ELSE 10 * conf
      raw == Clamp(c + bonus, 0, 100000)
  IN CeilDiv(raw, 1000)

\* re.sub(r"\s+(SARL|SA|...)", "", s): every run of whitespace followed by a
\* legal suffix is removed
RECURSIVE DropSuffixes(_)
DropSuffixes(s) ==
  IF s = <<>> THEN <<>>
  ELSE LET rest == LStrip(s) IN
       IF Head(s) \in Whitespace /\ rest # <<>> /\ Head(rest) \in Suffixes
       THEN DropSuffixes(Tail(rest))
       ELSE <<Head(s)>> \o DropSuffixes(Tail(s))

\* " ".join(s.split()): whitespace runs collapse to one space, none at the ends
RECURSIVE Collapse(_)
Collapse(s) ==
  LET t == LStrip(s) IN
  IF t = <<>> THEN <<>>
  ELSE IF Head(s) \in Whitespace THEN <<" ">> \o Collapse(t)
  ELSE <<Head(s)>> \o Collapse(Tail(s))
JoinSplit(s) == Collapse(Strip(s))

\* CompanyValidator._basic_clean(name)
CompanyValidator_basic_clean(name) ==
  LET cleaned == JoinSplit(DropSuffixes(Strip(name)))
  IN IF cleaned # <<>> THEN cleaned ELSE name

\* ------------------------------------------------------------- ValidationResult
ValidationResult(original, validated, confidence, source, explanation) ==
  [original |-> original, validated |-> validated, confidence |-> confidence,
   source |-> source, explanation |-> explanation]

NoResult == ValidationResult(Empty, Empty, 0, "", "")

\* float(x): a JSON number or bool converts, null / list / text do not
FloatOk(x) == x.t \in {"num", "bool"}
FloatVal(x) == IF x.t = "bool" THEN x.v * 10000 ELSE x.v

\* ------------------------------------------------------------- the responses
\* What the external service does with one request: the client raises, or the
\* response text is not JSON (plain or truncated), or is JSON but a list, or
\* is a JSON object (bare or fenced: the regex extracts the same object).
Raises == [k |-> "raise", data |-> <<>>]
NotJson == [k |-> "text", data |-> <<>>]
JsonList == [k |-> "list", data |-> <<>>]
JsonObject(data) == [k |-> "obj", data |-> data]

\* ---------------------------------------------------------------- NameValidator
NameKeys ==
  {"nom_corrige", "prenom_corrige", "confidence_nom", "confidence_prenom",
   "reasoning", "corrections_appliquees"}

NameOutcome(raised, called, n, p, expl) ==
  [raised |-> raised, called |-> called, n |-> n, p |-> p, expl |-> expl]

\* an except branch that reports the failure as a model answer
NameError_asAnswer(nom, prenom) ==
  NameOutcome(FALSE, TRUE,
              ValidationResult(Str(nom), Str(nom), 50, "gpt4.1-mini", ""),
              ValidationResult(Str(prenom), Str(prenom), 50, "gpt4.1-mini", ""),
              "Erreur lors de la validation du nom")

\* lines 171-178: the except branch
NameError(nom, prenom) ==
  NameOutcome(FALSE, TRUE,
              ValidationResult(Str(nom), Str(nom), 0, "error", ""),
              ValidationResult(Str(prenom), Str(prenom), 0, "error", ""),
              "Erreur lors de la validation du nom")

\* lines 144-169: the parsed object turned into the two results
NameFromData(nom, prenom, data) ==
  LET cn == Get(data, "confidence_nom", Num(0))
      cp == Get(data, "confidence_prenom", Num(0))
      nom_corrige == Get(data, "nom_corrige", Str(nom))
      prenom_corrige == Get(data, "prenom_corrige", Str(prenom))
      reasoning == Truthy(Get(data, "reasoning", Empty))
      corrections == Truthy(Get(data, "corrections_appliquees", Empty))
  IN IF ~FloatOk(cn) \/ ~FloatOk(cp) THEN NameError(nom, prenom)
     ELSE IF ~isinstance_str(nom_corrige) \/ ~isinstance_str(prenom_corrige)
     THEN NameError(nom, prenom)     \* cleaned.lower() raises in _similarity
     ELSE NameOutcome(FALSE, TRUE,
            ValidationResult(Str(nom), nom_corrige,
              NameValidator_calibrate(FloatVal(cn), nom, nom_corrige.s),
              "gpt4.1-mini", ""),
            ValidationResult(Str(prenom), prenom_corrige,
              NameValidator_calibrate(FloatVal(cp), prenom, prenom_corrige.s),
              "gpt4.1-mini", ""),
            IF reasoning /\ corrections THEN "Raisonnement. Corrections."
            ELSE IF reasoning THEN "Raisonnement."
            ELSE IF corrections THEN "Corrections."
            ELSE "Aucune explication")

\* NameValidator.validate(nom, prenom, email) with a client configured or not,
\* and resp what the service does if it is called.  raised: the exception
\* leaves validate; called: the request was sent.
NameValidator_validate(nom, prenom, email, client, resp) ==
  IF \/ ~isinstance_str(OrEmpty(nom))
     \/ ~isinstance_str(OrEmpty(prenom))
     \/ ~isinstance_str(OrEmpty(email))
  THEN NameOutcome(TRUE, FALSE, NoResult, NoResult, "")   \* .strip() of a float
  ELSE
    LET n == Strip(OrEmpty(nom).s)
        p == Strip(OrEmpty(prenom).s)
    IN IF ~client \/ ~(n # <<>> \/ p # <<>>)
       THEN NameOutcome(FALSE, FALSE,
              ValidationResult(Str(n), Str(n), 0, "no_llm", ""),
              ValidationResult(Str(p), Str(p), 0, "no_llm", ""),
              "No LLM client or empty name/prenom input.")
       ELSE IF resp.k = "obj" THEN NameFromData(n, p, resp.data)
       ELSE NameError(n, p)     \* create() raised, json.loads or data.get raised

\* ------------------------------------------------------------- CompanyValidator
CompanyKeys ==
  {"nom_commercial", "confidence", "explication", "entreprise_connue",
   "citations"}

CompanyOutcome(raised, called, res) ==
  [raised |-> raised, called |-> called, res |-> res]

\* ";".join(urls) if urls else ""
CitationStr(n) ==
  IF n = 0 THEN "" ELSE IF n = 1 THEN "url1" ELSE "url1;url2;.."

\* lines 220-223: the except branch
CompanyError(company_input, s) ==
  CompanyOutcome(FALSE, TRUE,
    ValidationResult(company_input, Str(CompanyValidator_basic_clean(s)), 30,
                     "error", "exception fallback"))

\* a fallback that keeps the input uncleaned at the default confidence
CompanyFallback_uncleaned(company_input, s, urls, explanation) ==
  CompanyOutcome(FALSE, TRUE,
    ValidationResult(company_input, Str(s), 50, CitationStr(urls), explanation))

\* lines 185-199: no usable nom_commercial
CompanyFallback(company_input, s, urls, explanation) ==
  CompanyOutcome(FALSE, TRUE,
    ValidationResult(company_input, Str(CompanyValidator_basic_clean(s)),
                     CompanyValidator_calibrate(1000, urls, FALSE, TRUE),
                     CitationStr(urls), explanation))

\* lines 167-218: the parsed object turned into the result
CompanyFromData(company_input, s, email_domain, data) ==
  LET explanation ==
        IF HasKey(data, "explication") THEN "explication"
        ELSE "Explication non fournie par l'IA."
      raw_citations == Get(data, "citations", JList(0))
      urls == IF raw_citations.t = "list" THEN raw_citations.v ELSE 0
      nom == data["nom_commercial"]
      empty == \A k \in CompanyKeys : ~HasKey(data, k)
  IN IF ~HasKey(data, "nom_commercial") \/ ~Truthy(nom)
     THEN CompanyFallback(company_input, s, urls,
            IF HasKey(data, "nom_commercial")
            THEN "Nom commercial non fourni par l'IA, utilisation du nom nettoye."
            ELSE IF empty THEN "Fallback: Nom nettoye basiquement"
            ELSE explanation)
     ELSE
       LET base == Get(data, "confidence", Num(5000))
           domain == AlnumOnly(SplitFirst(SplitLast(Lower(email_domain), "@"), "."))
           unknown_flag == ~Truthy(Get(data, "entreprise_connue", JBool(FALSE)))
       IN IF ~FloatOk(base) \/ ~isinstance_str(nom)
          THEN CompanyError(company_input, s)   \* float() or .lower() raises
          ELSE CompanyOutcome(FALSE, TRUE,
                 ValidationResult(company_input, nom,
                   CompanyValidator_calibrate(FloatVal(base), urls,
                     domain # <<>> /\ IsSubstr(domain, AlnumOnly(Lower(nom.s))),
                     unknown_flag),
                   CitationStr(urls), explanation))

\* a validate whose fast path looks at the client only
CompanyValidator_validate_blankAsked(company_input, email_domain, client, resp) ==
  LET company_input_str ==
        Strip(IF isinstance_str(company_input) THEN company_input.s ELSE <<>>)
  IN IF ~client
     THEN CompanyOutcome(FALSE, FALSE,
            ValidationResult(company_input, Str(company_input_str), 0,
                             "no_llm", ""))
     ELSE IF resp.k \in {"raise", "list"}
     THEN CompanyError(company_input, company_input_str)
     ELSE IF resp.k = "text"
     THEN CompanyFallback(company_input, company_input_str, 0,
                          "Fallback: Nom nettoye basiquement")
     ELSE CompanyFromData(company_input, company_input_str, email_domain,
                          resp.data)

\* CompanyValidator.validate(company_input, email_domain)
CompanyValidator_validate(company_input, email_domain, client, resp) ==
  LET company_input_str ==
        Strip(IF isinstance_str(company_input) THEN company_input.s ELSE <<>>)
  IN IF ~client \/ company_input_str = <<>>
     THEN CompanyOutcome(FALSE, FALSE,
            ValidationResult(company_input, Str(company_input_str), 0,
                             "no_llm", ""))
     ELSE IF resp.k = "raise" THEN CompanyError(company_input, company_input_str)
     ELSE IF resp.k = "text"
     THEN CompanyFallback(company_input, company_input_str, 0,
                          "Fallback: Nom nettoye basiquement")
     ELSE IF resp.k = "list"    \* data.get raises twice: inner, then outer except
     THEN CompanyError(company_input, company_input_str)
     ELSE CompanyFromData(company_input, company_input_str, email_domain,
                          resp.data)

\* ====================================================================== state
VARIABLES
  vcase,     \* validator runs: the call under test (validator, arguments, service)
  vout,      \* validator runs: what validate returned or raised, "pending" before
  vcalls,    \* validator runs: external requests sent by the call
  input,     \* the CSV file given to clean(): [cols, rows]
  settings,  \* [client, max_concurrency, batch_size]
  cleanPc,   \* clean(): "init", "gather", "await_saver", "done", "raised"
  df,        \* the DataFrame shared by all tasks: a sequence of rows
  row,       \* row[i]: the copy df.iloc[i].copy() handed to _process_row
  pc,        \* pc[i]: where the task of row i is
  res,       \* res[i]: the locals n_res, p_res, name_expl of row i
  sem,       \* self.sem: [value, waiters]
  held,      \* held[i]: [acq, rel], the permits row i obtained and gave back
  events,    \* events[i]: what the task of row i has done so far, in order
  saver,     \* _save_loop: [pc, processed, new_processed, late, idle, persists]
  snap,      \* the DataFrame as it was when the running write_csv started
  out        \* the output file: [st, base, over]

vvars == <<vcase, vout, vcalls>>
pvars ==
  <<input, settings, cleanPc, df, row, pc, res, sem, held, events, saver, snap,
    out>>
vars == <<vcase, vout, vcalls, input, settings, cleanPc, df, row, pc, res, sem,
          held, events, saver, snap, out>>

\* ============================================================ validator runs
\* The arguments and service behaviours tried on the validators alone.
NameCells ==
  {NaN, Empty, Str(<<" ">>), Str(<<"a">>), Str(<<" ", "a", " ">>),
   Str(<<"a", " ", "b">>)}
EmailCells == {NaN, Empty, Str(<<"a", "@", "b", ".", "a">>)}
CompanyCells ==
  {NaN, Empty, Str(<<" ">>), Str(<<"a">>), Str(<<" ", "a">>),
   Str(<<"a", " ", "SA">>), Str(<<"SA">>)}
Domains == {<<>>, <<"a", ".", "b">>, <<"b">>}

NameObjects ==
  {[nom_corrige |-> nc, prenom_corrige |-> pcor, confidence_nom |-> cn,
    confidence_prenom |-> cp, reasoning |-> rs, corrections_appliquees |-> rs] :
     nc \in {Absent, JNull, Str(<<"a">>), Str(<<"b", " ", "a">>)},
     pcor \in {Absent, Str(<<"A">>)},
     cn \in {Absent, JNull, Num(7231), Num(15000)},
     cp \in {Absent, Num(7000)},
     rs \in {Absent, Str(<<"a">>)}}
NameResponses ==
  {Raises, NotJson, JsonList} \cup {JsonObject(d) : d \in NameObjects}

CompanyObjects ==
  {[nom_commercial |-> nc, confidence |-> cf, explication |-> ex,
    entreprise_connue |-> kn, citations |-> ci] :
     nc \in {Absent, Empty, JNull, Num(5), Str(<<"a">>), Str(<<"A", " ", "b">>)},
     cf \in {Absent, JNull, Num(7000), Num(7231), Num(9800)},
     ex \in {Absent, Str(<<"a">>)},
     kn \in {Absent, JBool(TRUE)},
     ci \in {Absent, JNull, JList(0), JList(2)}}
CompanyResponses ==
  {Raises, NotJson, JsonList} \cup {JsonObject(d) : d \in CompanyObjects}

NameCases ==
  [validator : {"name"}, nom : NameCells, prenom : {Empty, Str(<<"b">>), NaN},
   email : EmailCells, company : {Empty}, domain : {<<>>},
   client : BOOLEAN, resp : NameResponses]
CompanyCases ==
  [validator : {"company"}, nom : {Empty}, prenom : {Empty}, email : {Empty},
   company : CompanyCells, domain : Domains,
   client : BOOLEAN, resp : CompanyResponses]

Pending == [raised |-> FALSE, called |-> FALSE, st |-> "pending"]

\* the pipeline before clean() is called, with no input file
Idle ==
  /\ input = [cols |-> {}, rows |-> <<>>]
  /\ settings = [client |-> FALSE, max_concurrency |-> 1, batch_size |-> 1]
  /\ cleanPc = "idle"
  /\ df = <<>> /\ row = <<>> /\ pc = <<>> /\ res = <<>> /\ held = <<>>
  /\ events = <<>>
  /\ sem = [value |-> 1, waiters |-> <<>>]
  /\ saver = [pc |-> "none", processed |-> 0, new_processed |-> 0, late |-> FALSE,
              idle |-> FALSE, persists |-> 0]
  /\ snap = <<>>
  /\ out = [st |-> "none", base |-> <<>>, over |-> <<>>]

InitV ==
  /\ vcase \in NameCases \cup CompanyCases
  /\ vout = Pending
  /\ vcalls = 0
  /\ Idle

\* await NameValidator().validate(nom, prenom, email)
CallNameValidator ==
  /\ vcase.validator = "name" /\ vout = Pending
  /\ LET r == NameValidator_validate(vcase.nom, vcase.prenom, vcase.email,
                                     vcase.client, vcase.resp)
     IN /\ vout' = [raised |-> r.raised, called |-> r.called, st |-> "returned",
                    n |-> r.n, p |-> r.p, expl |-> r.expl]
        /\ vcalls' = vcalls + (IF r.called THEN 1 ELSE 0)
  /\ UNCHANGED <<vcase, pvars>>

\* await CompanyValidator().validate(company_input, email_domain)
CallCompanyValidator ==
  /\ vcase.validator = "company" /\ vout = Pending
  /\ LET r == CompanyValidator_validate(vcase.company, vcase.domain,
                                        vcase.client, vcase.resp)
     IN /\ vout' = [raised |-> r.raised, called |-> r.called, st |-> "returned",
                    res |-> r.res]
        /\ vcalls' = vcalls + (IF r.called THEN 1 ELSE 0)
  /\ UNCHANGED <<vcase, pvars>>

NextV == CallNameValidator \/ CallCompanyValidator

ValidatorSpec == InitV /\ [][NextV]_vars

\* ================================================================ pipeline
\* settings.default_*_col and the result columns of clean()
nom_col == "nom"
prenom_col == "prenom"
entreprise_col == "raison_sociale"
email_col == "email"
InputCols == {nom_col, prenom_col, entreprise_col, email_col}
ConfidenceCols == {"confiance_nom", "confiance_prenom", "confiance_entreprise"}
result_cols ==
  {"nom_valide", "prenom_valide", "raison_sociale_validee", "confiance_nom",
   "confiance_prenom", "confiance_entreprise", "entreprise_citations",
   "entreprise_explication", "name_explication", "source_validation"}
Default(col) == IF col \in ConfidenceCols THEN 0 ELSE Empty

\* a Python str kept as one symbol ("" stays the empty string)
Text(x) == IF x = "" THEN Empty ELSE Str(<<x>>)

\* The input files tried: every row is one of these, and the file either has
\* no result column or the source_validation column of an earlier run, where
\* each row has a tag or an empty cell.
RowKinds == {"ok", "blank", "nan_nom", "no_company"}
InputRow(kind) ==
  CASE kind = "ok" ->
         [nom |-> Str(<<"a">>), prenom |-> Str(<<"b">>),
          raison_sociale |-> Str(<<"a", " ", "SA">>),
          email |-> Str(<<"a", "@", "a">>)]
    [] kind = "blank" ->
         [nom |-> Str(<<" ">>), prenom |-> Str(<<" ">>),
          raison_sociale |-> Str(<<" ">>), email |-> Str(<<"a", "@", "a">>)]
    [] kind = "nan_nom" ->
         [nom |-> NaN, prenom |-> Str(<<"b">>),
          raison_sociale |-> Str(<<"a">>), email |-> Str(<<"a", "@", "a">>)]
    [] kind = "no_company" ->
         [nom |-> Str(<<"a">>), prenom |-> Str(<<" ">>),
          raison_sociale |-> NaN, email |-> Str(<<"a">>)]
OldTag == Str(<<"nom:", "old">>)
WithTag(r, tag) ==
  [c \in DOMAIN r \cup {"source_validation"} |->
     IF c \in DOMAIN r THEN r[c] ELSE tag]
InputFiles ==
  UNION {
    {[cols |-> InputCols,
      rows |-> [i \in 1..n |-> InputRow(kinds[i])]] :
       kinds \in [1..n -> RowKinds]}
    \cup
    {[cols |-> InputCols \cup {"source_validation"},
      rows |-> [i \in 1..n |-> WithTag(InputRow(kinds[i]), tags[i])]] :
       kinds \in [1..n -> RowKinds], tags \in [1..n -> {OldTag, NaN}]} :
    n \in 0..MaxRows}

\* what the service does in a pipeline run
PipelineNameResponses ==
  {Raises, NotJson,
   JsonObject([nom_corrige |-> Absent, prenom_corrige |-> Absent,
               confidence_nom |-> Absent, confidence_prenom |-> Absent,
               reasoning |-> Absent, corrections_appliquees |-> Absent]),
   JsonObject([nom_corrige |-> Str(<<"b">>), prenom_corrige |-> Str(<<"a">>),
               confidence_nom |-> Num(9500), confidence_prenom |-> Num(9000),
               reasoning |-> Str(<<"a">>), corrections_appliquees |-> Absent])}
PipelineCompanyResponses ==
  {Raises, NotJson,
   JsonObject([nom_commercial |-> Str(<<"A">>), confidence |-> Num(9800),
               explication |-> Str(<<"a">>), entreprise_connue |-> JBool(TRUE),
               citations |-> JList(1)])}

\* read_csv: pd.read_csv(...).dropna(axis=1, how="all") drops every column
\* without a value (all of them in a file without rows)
read_csv(file) ==
  LET kept == {c \in file.cols : \E i \in 1..Len(file.rows) : file.rows[i][c] # NaN}
  IN [i \in 1..Len(file.rows) |-> [c \in kept |-> file.rows[i][c]]]

\* a seeding that resets every result column to its default
Seed_overwrite(table) ==
  [i \in 1..Len(table) |->
     [c \in DOMAIN table[i] \cup result_cols |->
        IF c \in result_cols THEN Default(c) ELSE table[i][c]]]

\* clean() lines 89-104: a result column missing from df is added with its default
Seed(table) ==
  [i \in 1..Len(table) |->
     [c \in DOMAIN table[i] \cup result_cols |->
        IF c \in DOMAIN table[i] THEN table[i][c] ELSE Default(c)]]

\* (df["source_validation"] != "").sum()
Processed(table) ==
  Cardinality({i \in 1..Len(table) : table[i]["source_validation"] # Empty})

\* a task that has written only the tag when the others can run
WriteRow_tagOnly(table, i, n_res, p_res, c_res, name_expl) ==
  [table EXCEPT ![i]["source_validation"] = Str(<<"nom:", n_res.source>>)]

\* assignments that all go to the first row of the table
WriteRow_first(table, i, n_res, p_res, c_res, name_expl) ==
  [table EXCEPT ![1] =
     [c \in DOMAIN table[1] |->
        CASE c = "nom_valide" -> n_res.validated
          [] c = "prenom_valide" -> p_res.validated
          [] c = "raison_sociale_validee" -> c_res.validated
          [] c = "confiance_nom" -> n_res.confidence
          [] c = "confiance_prenom" -> p_res.confidence
          [] c = "confiance_entreprise" -> c_res.confidence
          [] c = "entreprise_citations" -> Text(c_res.source)
          [] c = "entreprise_explication" -> Text(c_res.explanation)
          [] c = "name_explication" -> Text(name_expl)
          [] c = "source_validation" -> Str(<<"nom:", n_res.source>>)
          [] OTHER -> table[1][c]]]

\* _process_row lines 54-64: the ten df.at[row_idx, col] = ... assignments
WriteRow(table, i, n_res, p_res, c_res, name_expl) ==
  [table EXCEPT ![i] =
     [c \in DOMAIN table[i] |->
        CASE c = "nom_valide" -> n_res.validated
          [] c = "prenom_valide" -> p_res.validated
          [] c = "raison_sociale_validee" -> c_res.validated
          [] c = "confiance_nom" -> n_res.confidence
          [] c = "confiance_prenom" -> p_res.confidence
          [] c = "confiance_entreprise" -> c_res.confidence
          [] c = "entreprise_citations" -> Text(c_res.source)
          [] c = "entreprise_explication" -> Text(c_res.explanation)
          [] c = "name_explication" -> Text(name_expl)
          [] c = "source_validation" -> Str(<<"nom:", n_res.source>>)
          [] OTHER -> table[i][c]]]

\* ------------------------------------------------------- asyncio.Semaphore
\* a gate that lets every task in
CanAcquire_unbounded(s) == TRUE

\* acquire() without waiting: a permit is free and nobody waits
CanAcquire(s) == s.value > 0 /\ s.waiters = <<>>
Take(s) == [s EXCEPT !.value = s.value - 1]
Enqueue(s, i) == [s EXCEPT !.waiters = Append(s.waiters, i)]
\* a release that takes the first waiter off the queue and wakes nobody
Woken_none(s) == 0

\* the task release() wakes: the first waiter
Woken(s) == IF s.waiters = <<>> THEN 0 ELSE Head(s.waiters)

\* a release that drops the permit
Release_lost(s) == [s EXCEPT !.waiters = IF s.waiters = <<>> THEN <<>> ELSE Tail(s.waiters)]

\* release(): the permit goes to the first waiter, or back to the pool
Release(s) ==
  IF s.waiters = <<>> THEN [s EXCEPT !.value = s.value + 1]
  ELSE [s EXCEPT !.waiters = Tail(s.waiters)]

\* ------------------------------------------------------------ _process_row
NoLocals == [n |-> NoResult, p |-> NoResult, expl |-> "", c |-> NoResult]

\* The state of row i's task and of what it shares after it ran from one
\* await to the next: its pc and locals, whether it left `async with
\* self.sem` (release), whether it wrote its row, and what it did on the way,
\* in the order of the code: "name" / "company" a validator is called,
\* "name_req" / "company_req" the validator sends its request, "name_ret" /
\* "company_ret" the validator returns, "release", "write".
Step(p, locals, release, write, ev) ==
  [pc |-> p, locals |-> locals, release |-> release, write |-> write, ev |-> ev]

Range(ev) == {ev[k] : k \in 1..Len(ev)}

\* the run st, after the task did ev
After(ev, st) == [st EXCEPT !.ev = ev \o @]

\* a task that writes its row inside `async with self.sem`
AfterCompany_writeInside(i, locals, c_res) ==
  Step("done", [locals EXCEPT !.c = c_res], TRUE, TRUE,
       <<"company_ret", "write", "release">>)

\* lines 51-64, after both validators returned
AfterCompany(i, locals, c_res) ==
  Step("done", [locals EXCEPT !.c = c_res], TRUE, TRUE,
       <<"company_ret", "release", "write">>)

\* a task that sends the name request once more when it failed
AfterName_retry(i, nameOut) ==
  LET email == IF email_col \in DOMAIN row[i] THEN row[i][email_col] ELSE Empty
      domain ==
        IF isinstance_str(email) /\ Positions(email.s, "@") # {}
        THEN SplitLast(email.s, "@") ELSE <<>>
      locals == [n |-> nameOut.n, p |-> nameOut.p, expl |-> nameOut.expl,
                 c |-> NoResult]
  IN IF nameOut.n.source = "error" /\ "name_ret" \notin Range(events[i])
     THEN Step("name_call", NoLocals, FALSE, FALSE, <<"name_ret", "name_req">>)
     ELSE IF entreprise_col \notin DOMAIN row[i]
     THEN Step("failed", NoLocals, TRUE, FALSE,
               <<"name_ret", "release">>)
     ELSE LET c == CompanyValidator_validate(row[i][entreprise_col], domain,
                                             settings.client, Raises)
          IN IF c.called
             THEN Step("company_call", locals, FALSE, FALSE,
                       <<"name_ret", "company", "company_req">>)
             ELSE After(<<"name_ret", "company">>, AfterCompany(i, locals, c.res))

\* lines 44-51, after the name validator returned: the company validator runs
\* up to its request, or to its end on the fast path
AfterName(i, nameOut) ==
  LET email == IF email_col \in DOMAIN row[i] THEN row[i][email_col] ELSE Empty
      domain ==
        IF isinstance_str(email) /\ Positions(email.s, "@") # {}
        THEN SplitLast(email.s, "@") ELSE <<>>
      locals == [n |-> nameOut.n, p |-> nameOut.p, expl |-> nameOut.expl,
                 c |-> NoResult]
  IN IF entreprise_col \notin DOMAIN row[i]
     THEN Step("failed", NoLocals, TRUE, FALSE,
               <<"name_ret", "release">>)                \* KeyError
     ELSE LET c == CompanyValidator_validate(row[i][entreprise_col], domain,
                                             settings.client, Raises)
          IN IF c.called
             THEN Step("company_call", locals, FALSE, FALSE,
                       <<"name_ret", "company", "company_req">>)
             ELSE After(<<"name_ret", "company">>, AfterCompany(i, locals, c.res))

\* lines 37-42, after the permit was obtained: the name validator runs up to
\* its request, or to its end on the fast path, or raises
AfterAcquire(i) ==
  LET email == IF email_col \in DOMAIN row[i] THEN row[i][email_col] ELSE Empty
  IN IF nom_col \notin DOMAIN row[i] \/ prenom_col \notin DOMAIN row[i]
     THEN Step("failed", NoLocals, TRUE, FALSE, <<"release">>)   \* KeyError
     ELSE LET r == NameValidator_validate(row[i][nom_col], row[i][prenom_col],
                                          email, settings.client, Raises)
          IN IF r.raised
             THEN Step("failed", NoLocals, TRUE, FALSE, <<"name", "release">>)
             ELSE IF r.called
             THEN Step("name_call", NoLocals, FALSE, FALSE, <<"name", "name_req">>)
             ELSE After(<<"name">>, AfterName(i, r))

\* the task of row i moves on: st is where it stops, s the semaphore it left,
\* took whether it obtained its permit in this step
Apply(i, st, s, took) ==
  LET s2 == IF st.release THEN Release(s) ELSE s
      w == IF st.release THEN Woken(s) ELSE 0
  IN /\ pc' = [j \in DOMAIN pc |->
                 IF j = i THEN st.pc ELSE IF j = w THEN "granted" ELSE pc[j]]
     /\ res' = [res EXCEPT ![i] = IF st.pc = "done" THEN NoLocals ELSE st.locals]
     /\ sem' = s2
     /\ held' = [j \in DOMAIN held |->
                   IF j = i
                   THEN [acq |-> held[i].acq + (IF took THEN 1 ELSE 0),
                         rel |-> held[i].rel + (IF st.release THEN 1 ELSE 0)]
                   ELSE IF j = w THEN [held[j] EXCEPT !.acq = @ + 1]
                   ELSE held[j]]
     /\ events' = [j \in DOMAIN events |->
                     IF j = i
                     THEN events[i] \o (IF took THEN <<"acquire">> ELSE <<>>) \o st.ev
                     ELSE IF j = w THEN Append(events[j], "acquire")
                     ELSE events[j]]
     /\ df' = IF st.write
              THEN WriteRow(df, i, st.locals.n, st.locals.p, st.locals.c,
                            st.locals.expl)
              ELSE df

Rows == DOMAIN pc

\* an event loop that also stands still while df.to_csv runs
FirstPass_orWriting ==
  (\E i \in Rows : pc[i] = "start") \/ saver.pc \in {"write", "final"}

\* clean() line 106-112: gather schedules the row tasks in index order behind
\* the saver, and the event loop runs every scheduled task once, in that
\* order, before it looks at timers, responses or woken waiters
FirstPass == \E i \in Rows : pc[i] = "start"

\* the event loop can run the task of row i, which stands at p: the first pass
\* is over; nothing else holds a task back
Runnable(i, p) == ~FirstPass /\ pc[i] = p

\* `async with self.sem`: a free permit is taken at once, else the task waits
Acquire(i) ==
  /\ pc[i] = "start"
  /\ \A j \in Rows : j < i => pc[j] # "start"
  /\ IF CanAcquire(sem)
     THEN Apply(i, AfterAcquire(i), Take(sem), TRUE)
     ELSE /\ pc' = [pc EXCEPT ![i] = "waiting"]
          /\ sem' = Enqueue(sem, i)
          /\ UNCHANGED <<res, held, events, df>>
  /\ UNCHANGED <<vvars, input, settings, cleanPc, row, saver, snap, out>>

\* a waiter that release() woke resumes with its permit
Resume(i) ==
  /\ Runnable(i, "granted")
  /\ Apply(i, AfterAcquire(i), sem, FALSE)
  /\ UNCHANGED <<vvars, input, settings, cleanPc, row, saver, snap, out>>

\* the request of the name validator returns or raises, with one of answers
NameReturnWith(i, answers) ==
  /\ Runnable(i, "name_call")
  /\ \E resp \in answers :
       Apply(i, AfterName(i,
                  NameValidator_validate(row[i][nom_col], row[i][prenom_col],
                    IF email_col \in DOMAIN row[i] THEN row[i][email_col] ELSE Empty,
                    settings.client, resp)),
             sem, FALSE)
  /\ UNCHANGED <<vvars, input, settings, cleanPc, row, saver, snap, out>>

NameReturn(i) == NameReturnWith(i, PipelineNameResponses)

\* the request of the company validator returns or raises, with one of answers
CompanyReturnWith(i, answers) ==
  /\ Runnable(i, "company_call")
  /\ \E resp \in answers :
       LET email == IF email_col \in DOMAIN row[i] THEN row[i][email_col] ELSE Empty
           domain ==
             IF isinstance_str(email) /\ Positions(email.s, "@") # {}
             THEN SplitLast(email.s, "@") ELSE <<>>
       IN Apply(i, AfterCompany(i, res[i],
                     CompanyValidator_validate(row[i][entreprise_col], domain,
                                               settings.client, resp).res),
                sem, FALSE)
  /\ UNCHANGED <<vvars, input, settings, cleanPc, row, saver, snap, out>>

CompanyReturn(i) == CompanyReturnWith(i, PipelineCompanyResponses)

\* --------------------------------------------------------------- _save_loop
\* a write_csv of the table as it was loaded
StartWrite_asLoaded(kind) ==
  /\ snap' = row
  /\ out' = [st |-> "writing", base |-> <<>>, over |-> <<>>]

StartWrite(kind) ==
  /\ snap' = df
  /\ out' = [st |-> "writing", base |-> <<>>, over |-> <<>>]

\* a batch test that wants more than batch_size new rows
Due_strict(new_processed) ==
  new_processed - saver.processed > settings.batch_size \/ saver.late

\* line 75: enough rows were processed since the last save, or more than 10 s
\* have gone by since
Due(new_processed) ==
  new_processed - saver.processed >= settings.batch_size \/ saver.late

\* a loop without the unconditional final flush
SaverWake_thresholdOnly ==
  /\ ~FirstPass
  /\ saver.pc = "sleep"
  /\ LET new_processed == Processed(df) IN
     IF Due(new_processed)
     THEN /\ saver' = [saver EXCEPT !.pc = "write", !.new_processed = new_processed]
          /\ StartWrite("write")
     ELSE /\ saver' = [saver EXCEPT !.new_processed = new_processed, !.idle = TRUE]
          /\ UNCHANGED <<snap, out>>
  /\ UNCHANGED <<vvars, input, settings, cleanPc, df, row, pc, res, sem, held,
                 events>>

\* line 73-79: the loop wakes from asyncio.sleep(1), counts the processed rows
\* and starts a write_csv, or sleeps again
SaverWake ==
  /\ ~FirstPass
  /\ saver.pc = "sleep"
  /\ LET new_processed == Processed(df) IN
     IF Due(new_processed)
     THEN /\ saver' = [saver EXCEPT !.pc = "write", !.new_processed = new_processed]
          /\ StartWrite("write")
     ELSE IF new_processed = Len(df)
     THEN /\ saver' = [saver EXCEPT !.pc = "final", !.new_processed = new_processed]
          /\ StartWrite("final")
     ELSE /\ saver' = [saver EXCEPT !.new_processed = new_processed, !.idle = TRUE]
          /\ UNCHANGED <<snap, out>>
  /\ UNCHANGED <<vvars, input, settings, cleanPc, df, row, pc, res, sem, held,
                 events>>

\* more than 10 s have gone by since last_save: the loop, which wakes every
\* second, has woken since then and found nothing to save
TimePasses ==
  /\ saver.pc = "sleep" /\ ~saver.late /\ saver.idle
  /\ saver' = [saver EXCEPT !.late = TRUE]
  /\ UNCHANGED <<vvars, input, settings, cleanPc, df, row, pc, res, sem, held,
                 events, snap, out>>

\* write_csv: df.to_csv ran in the executor thread from snap to the df of now;
\* every cell of the file is the cell as it was at some moment in between
Written == [st |-> "complete", base |-> snap, over |-> df]

\* a loop that records the count of the moment the write_csv ends
PersistDone_recount ==
  /\ saver.pc = "write"
  /\ out' = Written
  /\ snap' = <<>>
  /\ saver' = [saver EXCEPT
                 !.pc = IF saver.new_processed = Len(df) THEN "flush" ELSE "sleep",
                 !.processed = Processed(df),
                 !.late = FALSE,
                 !.idle = FALSE,
                 !.persists = IF @ < MaxPersists THEN @ + 1 ELSE @]
  /\ UNCHANGED <<vvars, input, settings, cleanPc, df, row, pc, res, sem, held,
                 events>>

\* line 76-78: the intermediate write_csv is over
PersistDone ==
  /\ saver.pc = "write"
  /\ out' = Written
  /\ snap' = <<>>
  /\ saver' = [saver EXCEPT
                 !.pc = IF saver.new_processed = Len(df) THEN "flush" ELSE "sleep",
                 !.processed = saver.new_processed,
                 !.late = FALSE,
                 !.idle = FALSE,
                 !.persists = IF @ < MaxPersists THEN @ + 1 ELSE @]
  /\ UNCHANGED <<vvars, input, settings, cleanPc, df, row, pc, res, sem, held,
                 events>>

\* line 79: the final flush starts after the intermediate write of the same pass
FinalFlush ==
  /\ saver.pc = "flush"
  /\ saver' = [saver EXCEPT !.pc = "final"]
  /\ StartWrite("final")
  /\ UNCHANGED <<vvars, input, settings, cleanPc, df, row, pc, res, sem, held,
                 events>>

\* line 79-80: the final write_csv is over, the loop returns
FinalDone ==
  /\ saver.pc = "final"
  /\ out' = Written
  /\ snap' = <<>>
  /\ saver' = [saver EXCEPT !.pc = "done"]
  /\ UNCHANGED <<vvars, input, settings, cleanPc, df, row, pc, res, sem, held,
                 events>>

\* df.to_csv raises (disk full, no permission): the exception ends the loop
PersistFail ==
  /\ saver.pc \in {"write", "final"}
  /\ out' = [st |-> "partial", base |-> <<>>, over |-> <<>>]
  /\ snap' = <<>>
  /\ saver' = [saver EXCEPT !.pc = "raised"]
  /\ UNCHANGED <<vvars, input, settings, cleanPc, df, row, pc, res, sem, held,
                 events>>

\* -------------------------------------------------------------------- clean
\* lines 87-112: the table is read and seeded, one task per row and the saver
\* are created, clean() waits in gather
CleanStart ==
  /\ cleanPc = "init"
  /\ LET table == Seed(read_csv(input)) IN
     /\ df' = table
     /\ row' = table
     /\ pc' = [i \in 1..Len(table) |-> "start"]
     /\ res' = [i \in 1..Len(table) |-> NoLocals]
     /\ held' = [i \in 1..Len(table) |-> [acq |-> 0, rel |-> 0]]
     /\ events' = [i \in 1..Len(table) |-> <<>>]
  /\ saver' = [pc |-> "sleep", processed |-> 0, new_processed |-> 0, late |-> FALSE,
               idle |-> FALSE, persists |-> 0]
  /\ cleanPc' = "gather"
  /\ UNCHANGED <<vvars, input, settings, sem, snap, out>>

\* a clean() that starts the scheduler before it reads the table
LoadFail_afterSpawn ==
  /\ cleanPc = "init"
  /\ cleanPc' = "raised"
  /\ saver' = [saver EXCEPT !.pc = "sleep"]
  /\ UNCHANGED <<vvars, input, settings, df, row, pc, res, sem, held, events,
                 snap, out>>

\* line 87: read_csv raises
LoadFail ==
  /\ cleanPc = "init"
  /\ cleanPc' = "raised"
  /\ UNCHANGED <<vvars, input, settings, df, row, pc, res, sem, held, events,
                 saver, snap, out>>

\* line 112: gather re-raises the first exception of a row task
GatherRaise ==
  /\ ~FirstPass
  /\ cleanPc = "gather"
  /\ \E i \in Rows : pc[i] = "failed"
  /\ cleanPc' = "raised"
  /\ UNCHANGED <<vvars, input, settings, df, row, pc, res, sem, held, events,
                 saver, snap, out>>

\* a wait that is over with the first row task that returns
GatherDone_first ==
  /\ cleanPc = "gather"
  /\ \E i \in Rows : pc[i] = "done"
  /\ cleanPc' = "await_saver"
  /\ UNCHANGED <<vvars, input, settings, df, row, pc, res, sem, held, events,
                 saver, snap, out>>

\* line 112: every row task has returned
GatherDone ==
  /\ cleanPc = "gather"
  /\ \A i \in Rows : pc[i] = "done"
  /\ cleanPc' = "await_saver"
  /\ UNCHANGED <<vvars, input, settings, df, row, pc, res, sem, held, events,
                 saver, snap, out>>

\* a clean() that does not look at how the saver ended
SaverJoin_unchecked ==
  /\ cleanPc = "await_saver"
  /\ saver.pc \in {"done", "raised"}
  /\ cleanPc' = "done"
  /\ UNCHANGED <<vvars, input, settings, df, row, pc, res, sem, held, events,
                 saver, snap, out>>

\* lines 113-117: the saver has returned; log and summary
SaverJoin ==
  /\ cleanPc = "await_saver"
  /\ saver.pc = "done"
  /\ cleanPc' = "done"
  /\ UNCHANGED <<vvars, input, settings, df, row, pc, res, sem, held, events,
                 saver, snap, out>>

\* line 113: the saver ended with the exception of write_csv
SaverJoinRaise ==
  /\ cleanPc = "await_saver"
  /\ saver.pc = "raised"
  /\ cleanPc' = "raised"
  /\ UNCHANGED <<vvars, input, settings, df, row, pc, res, sem, held, events,
                 saver, snap, out>>

Init ==
  /\ vcase = [validator |-> "none"]
  /\ vout = Pending
  /\ vcalls = 0
  /\ input \in InputFiles
  /\ settings \in [client : BOOLEAN, max_concurrency : 1..MaxCapacity,
                   batch_size : 1..MaxBatch]
  /\ cleanPc = "init"
  /\ df = <<>> /\ row = <<>> /\ pc = <<>> /\ res = <<>> /\ held = <<>>
  /\ events = <<>>
  /\ sem = [value |-> settings.max_concurrency, waiters |-> <<>>]
  /\ saver = [pc |-> "none", processed |-> 0, new_processed |-> 0, late |-> FALSE,
              idle |-> FALSE, persists |-> 0]
  /\ snap = <<>>
  /\ out = [st |-> "none", base |-> <<>>, over |-> <<>>]

Next ==
  \/ CleanStart
  \/ LoadFail
  \/ \E i \in Rows : Acquire(i)
  \/ \E i \in Rows : Resume(i)
  \/ \E i \in Rows : NameReturn(i)
  \/ \E i \in Rows : CompanyReturn(i)
  \/ SaverWake
  \/ TimePasses
  \/ PersistDone
  \/ FinalFlush
  \/ FinalDone
  \/ PersistFail
  \/ GatherRaise
  \/ GatherDone
  \/ SaverJoin
  \/ SaverJoinRaise

Spec == Init /\ [][Next]_vars

\* ------------------------------------------------------------ fair runs
\* Runs in which the table loads and no write_csv raises, and in which the
\* event loop runs every task that can run: a scheduled task gets its step, a
\* request is answered (or fails) in the end, the sleep of the saver ends, a
\* write_csv in the executor finishes.
LiveNext ==
  \/ CleanStart
  \/ \E i \in Rows : Acquire(i)
  \/ \E i \in Rows : Resume(i)
  \/ \E i \in Rows : NameReturn(i)
  \/ \E i \in Rows : CompanyReturn(i)
  \/ SaverWake
  \/ TimePasses
  \/ PersistDone
  \/ FinalFlush
  \/ FinalDone
  \/ GatherRaise
  \/ GatherDone
  \/ SaverJoin

\* row i is waiting for the answer to a request
InCall(i) == i \in Rows /\ pc[i] \in {"name_call", "company_call"}

Fairness ==
  /\ WF_vars(CleanStart)
  /\ WF_vars(\E i \in Rows : Acquire(i))
  /\ WF_vars(\E i \in Rows : Resume(i))
  /\ \A i \in 1..MaxRows : []<>(~InCall(i))    \* no request lasts for ever
  /\ WF_vars(SaverWake)
  /\ WF_vars(PersistDone)
  /\ WF_vars(FinalFlush)
  /\ WF_vars(FinalDone)
  /\ WF_vars(GatherRaise)
  /\ WF_vars(GatherDone)
  /\ WF_vars(SaverJoin)

LiveSpec == Init /\ [][LiveNext]_vars /\ Fairness

\* ------------------------------------------------- the 12-row scenario run
\* The table loads, the service answers every request with a well-formed
\* object, in any order but before the scheduler first wakes (a fast service:
\* the rows take less than the 1 s of asyncio.sleep), the run is over before
\* the 10 s time threshold, and every persist succeeds.
ScenarioNameResponses ==
  {r \in PipelineNameResponses : r.k = "obj" /\ r.data.nom_corrige # Absent}
ScenarioCompanyResponses == {r \in PipelineCompanyResponses : r.k = "obj"}

ScenarioInit ==
  /\ vcase = [validator |-> "none"]
  /\ vout = Pending
  /\ vcalls = 0
  /\ input = [cols |-> InputCols,
              rows |-> [i \in 1..ScenarioRows |-> InputRow("ok")]]
  /\ settings \in [client : BOOLEAN, max_concurrency : {ScenarioCapacity},
                   batch_size : {ScenarioBatch}]
  /\ cleanPc = "init"
  /\ df = <<>> /\ row = <<>> /\ pc = <<>> /\ res = <<>> /\ held = <<>>
  /\ events = <<>>
  /\ sem = [value |-> settings.max_concurrency, waiters |-> <<>>]
  /\ saver = [pc |-> "none", processed |-> 0, new_processed |-> 0, late |-> FALSE,
              idle |-> FALSE, persists |-> 0]
  /\ snap = <<>>
  /\ out = [st |-> "none", base |-> <<>>, over |-> <<>>]

ScenarioNext ==
  \/ CleanStart
  \/ \E i \in Rows : Acquire(i)
  \/ \E i \in Rows : Resume(i)
  \/ \E i \in Rows : NameReturnWith(i, ScenarioNameResponses)
  \/ \E i \in Rows : CompanyReturnWith(i, ScenarioCompanyResponses)
  \/ (\A i \in Rows : pc[i] = "done") /\ SaverWake
  \/ PersistDone
  \/ FinalFlush
  \/ FinalDone
  \/ GatherDone
  \/ SaverJoin

ScenarioSpec == ScenarioInit /\ [][ScenarioNext]_vars

\* ======================================================== validator claims
Returned == vout.st = "returned"
IsName == vcase.validator = "name"
IsCompany == vcase.validator = "company"

\* the arguments are text, as validate's signature declares them
TextArgs ==
  /\ isinstance_str(vcase.nom) /\ isinstance_str(vcase.prenom)
  /\ isinstance_str(vcase.email) /\ isinstance_str(vcase.company)

\* the outcomes a call returned
Outcomes == IF IsName THEN {vout.n, vout.p} ELSE {vout.res}

\* the trimmed text of an argument ("" for a missing company cell)
Trimmed(x) == Strip(IF isinstance_str(x) THEN x.s ELSE <<>>)

WellFormed(o) ==
  /\ isinstance_str(o.validated)
  /\ o.confidence \in 0..100

\* C2: for every input value (text, blank text, a missing cell loaded as NaN)
\* and every behaviour of the service, validate returns an outcome and never
\* raises to its caller.
C2_NeverRaises == Returned => ~vout.raised

\* C8 as stated: when the service client raises, both validators return
\* provenance error, corrected equal to the original input, confidence 0.0.
RequestFailed == Returned /\ vout.called /\ vcase.resp.k = "raise"
RequiredKeys ==
  IF IsName
  THEN {"nom_corrige", "prenom_corrige", "confidence_nom", "confidence_prenom"}
  ELSE {"nom_commercial", "confidence"}
MissingKeys ==
  IF vcase.resp.k = "obj"
  THEN {k \in RequiredKeys : ~HasKey(vcase.resp.data, k)}
  ELSE {}
Malformed ==
  /\ Returned /\ vout.called
  /\ vcase.resp.k \in {"text", "list"} \/ MissingKeys # {}

TypedValues ==
  /\ vcase.resp.k = "obj"
  /\ \A k \in DOMAIN vcase.resp.data :
       LET x == vcase.resp.data[k] IN
       \/ x.t = "absent"
       \/ k \in {"confidence_nom", "confidence_prenom", "confidence"} /\ x.t = "num"
       \/ k \in {"nom_corrige", "prenom_corrige", "nom_commercial", "reasoning",
                 "corrections_appliquees", "explication"} /\ x.t = "str"
       \/ k = "entreprise_connue" /\ x.t = "bool"
       \/ k = "citations" /\ x.t = "list"

FastPath ==
  \/ ~vcase.client
  \/ IsName /\ Trimmed(vcase.nom) = <<>> /\ Trimmed(vcase.prenom) = <<>>
  \/ IsCompany /\ Trimmed(vcase.company) = <<>>

Tag(table, i) == table[i]["source_validation"]
Started == cleanPc \notin {"init", "idle"}
InFlight == {i \in Rows : pc[i] \in {"name_call", "company_call"}}
InGate == {i \in Rows : held[i].acq > held[i].rel}
Ended == {i \in Rows : pc[i] \in {"done", "failed"}}
C == settings.max_concurrency

\* C1: at every instant of a run with gate capacity C, the number of external
\* validator calls in flight, and the number of rows between gate acquire and
\* gate release, is at most C.
C1_ConcurrencyBound ==
  /\ Cardinality(InFlight) <= C
  /\ Cardinality(InGate) <= C
  /\ InFlight \subseteq InGate

\* the gate is full of outstanding calls while another row waits for a permit
C1_Witness ==
  /\ Cardinality(InFlight) = C
  /\ \E i \in Rows : pc[i] = "waiting"

\* a row whose validation failed: the name request or response was bad (tag
\* nom:error) or the company request failed (citations "error") or its response
\* was unusable (the fallback explanation)
ValidationFailed(i) ==
  \/ Tag(df, i) = Str(<<"nom:", "error">>)
  \/ df[i]["entreprise_citations"] = Text("error")
  \/ df[i]["entreprise_explication"] = Text("Fallback: Nom nettoye basiquement")

\* C3: in a run where the table loads and every persist succeeds, a validation
\* failure on a row does not abort the run: clean() does not raise, and when it
\* has returned every row carries a non-empty source tag and the failing row a
\* low confidence (at most 0.3).
C3_FailureAbsorbed ==
  (Started /\ saver.pc # "raised" /\ \E i \in Rows : ValidationFailed(i)) =>
    /\ cleanPc # "raised"
    /\ cleanPc = "done" =>
         \A i \in Rows :
           /\ Tag(df, i) # Empty
           /\ ValidationFailed(i) =>
                \/ df[i]["confiance_nom"] <= 30 /\ df[i]["confiance_prenom"] <= 30
                \/ df[i]["confiance_entreprise"] <= 30

\* C4: when clean() returns normally, the last completed persist was started
\* after every row was written: the file equals the final DataFrame and has a
\* non-empty source tag in every row.
C4_FinalSnapshot ==
  cleanPc = "done" =>
    /\ out.st = "complete"
    /\ out.base = df /\ out.over = df
    /\ \A i \in Rows : Tag(out.over, i) # Empty

\* C5: over one run each row's source tag changes only from empty to
\* non-empty, and never changes again.
C5_TagOnce ==
  [][\A i \in DOMAIN df \cap DOMAIN df' :
       Tag(df, i) # Tag(df', i) => (Tag(df, i) = Empty /\ Tag(df', i) # Empty)]_vars

\* the row i of a file written while df went from base to over: the columns in
\* S were serialised after the row was written, the others before
MixRow(base, over, i, S) ==
  [c \in DOMAIN base[i] |-> IF c \in S THEN over[i][c] ELSE base[i][c]]

\* C6: every persisted snapshot contains each row either with none of its
\* result columns written or with all of them written, also when rows are
\* written while write_csv serialises the table.
C6_NoTornRow ==
  out.st = "complete" =>
    \A i \in DOMAIN out.base :
      out.base[i] # out.over[i] =>
        \A S \in SUBSET result_cols :
          MixRow(out.base, out.over, i, S) \in {out.base[i], out.over[i]}

\* C7: gate permits are conserved: free permits plus rows inside the gate
\* equal C; a row obtains one permit before its first validator call and gives
\* it back once, also when the validator or a row-field read raises; when all
\* row tasks have ended all C permits are free.
C7_PermitsConserved ==
  Started =>
    /\ sem.value >= 0
    /\ sem.value + Cardinality(InGate) = C
    /\ \A i \in Rows :
         /\ held[i].acq <= 1 /\ held[i].rel <= held[i].acq
         /\ pc[i] \in {"granted", "name_call", "company_call"} <=> i \in InGate
         /\ pc[i] \in {"done", "failed"} => held[i].acq = 1 /\ held[i].rel = 1
         /\ pc[i] \in {"start", "waiting"} => held[i].acq = 0
    /\ Ended = Rows => sem.value = C

\* a row task raised inside the gate, every task has ended, all permits are free
C7_Witness ==
  /\ Started /\ Rows # {} /\ Ended = Rows
  /\ \E i \in Rows : pc[i] = "failed"
  /\ \E i \in Rows : pc[i] = "done"
  /\ sem.value = C

\* a step in which _save_loop wakes from its sleep and looks at the table
WakeUp == saver.pc = "sleep" /\ saver' # saver /\ saver'.late = saver.late

\* C11: _save_loop returns only right after a persist that it started on a
\* wake-up at which the processed-row count (rows with a non-empty source tag)
\* equalled the row count; on such a wake-up it starts a persist whatever the
\* batch and time thresholds say; once it has returned nothing is written any
\* more; and when it returns no row has an empty source tag.
C11_SaverTermination ==
  [][/\ (saver.pc # "done" /\ saver'.pc = "done") =>
          /\ saver.pc = "final"
          /\ saver.new_processed = Len(df)
          /\ out'.st = "complete"
          /\ \A i \in DOMAIN df' : Tag(df', i) # Empty
     /\ (saver.pc # "final" /\ saver'.pc = "final") =>
          saver'.new_processed = Len(df)
     /\ (WakeUp /\ Processed(df) = Len(df)) =>
          /\ saver'.pc \in {"write", "final"}
          /\ out'.st = "writing"
     /\ saver.pc = "done" => (saver' = saver /\ out' = out)]_vars

\* the loop returned after a final persist that neither threshold asked for
C11_Witness ==
  /\ saver.pc = "done" /\ out.st = "complete"
  /\ Len(df) = 1 /\ pc[1] = "done" /\ settings.batch_size = 2
  /\ "source_validation" \notin input.cols
  /\ saver.persists = 0 /\ ~saver.late

\* C12: at each wake-up of _save_loop an intermediate persist is started if
\* and only if the processed-row count minus last_recorded_count is at least
\* batch_size or more than the time threshold has gone by since the last save;
\* on a wake-up where neither holds and not all rows are processed nothing is
\* written and the loop sleeps again.
C12_PersistCondition ==
  [][WakeUp =>
       LET n == Processed(df)
           due == n - saver.processed >= settings.batch_size \/ saver.late
       IN /\ saver'.new_processed = n
          /\ saver'.pc = "write" <=> due
          /\ (~due /\ n # Len(df)) => (saver'.pc = "sleep" /\ out' = out)]_vars

\* an intermediate persist runs that was started with exactly batch_size newly
\* processed rows, before the time threshold and before the last row
C12_Witness ==
  /\ saver.pc = "write" /\ ~saver.late
  /\ saver.new_processed - saver.processed = settings.batch_size
  /\ saver.new_processed < Len(df)

\* C13: in the run of 12 rows with gate capacity 3 and batch threshold 5,
\* whatever the timing of the validators, clean() returns after at least 2
\* intermediate persists followed by the final persist, and the final output
\* has 12 rows, all with a non-empty source tag.
C13_ScenarioPersists ==
  cleanPc = "done" =>
    /\ saver.pc = "done"
    /\ saver.persists >= 2
    /\ out.st = "complete"
    /\ Len(out.base) = ScenarioRows /\ Len(out.over) = ScenarioRows
    /\ \A i \in 1..ScenarioRows :
         Tag(out.base, i) # Empty /\ Tag(out.over, i) # Empty

\* C14: if a persist (intermediate or final) fails, clean() never returns
\* normally: whenever clean() has returned, no write_csv has raised and the
\* output is a completed persist.
C14_PersistFailurePropagates ==
  /\ saver.pc = "raised" => cleanPc # "done"
  /\ cleanPc = "done" => (saver.pc = "done" /\ out.st = "complete")

\* every row task returned, a persist failed, and clean() raised
C14_Witness ==
  /\ Rows # {} /\ \A i \in Rows : pc[i] = "done"
  /\ saver.pc = "raised" /\ out.st = "partial"
  /\ cleanPc = "raised"

\* C15: if read_csv fails, clean() raises before it seeds a column, creates a
\* Row Processor or the scheduler task, makes an external call or writes any
\* output, and nothing of the kind happens afterwards.
C15_LoadFailure ==
  [][/\ (cleanPc = "init" /\ cleanPc' = "raised") =>
          /\ df' = <<>> /\ row' = <<>> /\ pc' = <<>>
          /\ saver'.pc = "none"
          /\ sem' = sem /\ sem.value = settings.max_concurrency
          /\ out'.st = "none"
     /\ (cleanPc = "raised" /\ saver.pc = "none") => UNCHANGED pvars]_vars

\* reading a table with rows failed: clean() raised and nothing was started
C15_Witness ==
  /\ cleanPc = "raised" /\ saver.pc = "none"
  /\ Len(input.rows) > 0
  /\ df = <<>> /\ pc = <<>> /\ out.st = "none"

\* C16: if the table loads, every external call returns or fails in the end
\* and every persist succeeds, then clean() returns in the end, for any number
\* of rows and any gate capacity.
C16_CleanReturns == <>(cleanPc = "done")

Unwritten(i) == pc[i] \in {"start", "waiting", "granted", "name_call", "company_call"}

\* C18: no result column of a row differs from its seeded value before both
\* validator calls of the row have returned, and a row still in flight has an
\* empty source tag, so that the scheduler counts it as unprocessed.
C18_CausalVisibility ==
  \A i \in Rows :
    Unwritten(i) =>
      /\ \A c \in result_cols : df[i][c] = row[i][c]
      /\ Tag(df, i) = Empty

\* C19: whenever the run may be interrupted, also while a persist is in
\* progress, the output destination holds the complete content of a completed
\* persist, or no output at all if none completed.
C19_LastCheckpointValid == out.st \in {"none", "complete"}

\* the processed rows that a crash now would lose: those absent from the
\* output as the last persist left it
Lost ==
  {i \in Rows :
     /\ Tag(df, i) # Empty
     /\ out.st # "complete" \/ Tag(out.over, i) = Empty}

\* C20: at every instant either at most batch_size processed rows are absent
\* from the last completed persist, or no more than the time threshold has
\* gone by since the last save.
C20_BoundedLoss ==
  Started => (Cardinality(Lost) <= settings.batch_size \/ ~saver.late)

\* ------------------------------------------------------------ confidences
\* c hundredths is the fraction R/D, clamped to [0, 1], rounded up to the next
\* hundredth
CeilHundredth(c, R, D) ==
  LET raw == IF R < 0 THEN 0 ELSE IF R > D THEN D ELSE R
  IN c \in 0..100 /\ c * D >= 100 * raw /\ (c - 1) * D < 100 * raw

\* base + 0.2*sim - 0.4*(1 - sim) as a fraction over 10000*den, sim = num/den
NameRawOver(key, original, o) ==
  LET sim == NameValidator_similarity(Trimmed(original), o.validated.s)
      base == FloatVal(Get(vcase.resp.data, key, Num(0)))
  IN <<base * sim[2] + 2000 * sim[1] - 4000 * (sim[2] - sim[1]), 10000 * sim[2]>>

\* the confidence asked for (0.1 and unknown when the answer names no company)
\* plus 0.025 per citation up to 4, plus 0.1 on a domain match, over 100000
CompanyRaw ==
  LET data == vcase.resp.data
      isObj == vcase.resp.k = "obj"
      named == isObj /\ HasKey(data, "nom_commercial")
                     /\ Truthy(data["nom_commercial"])
      listed == IF isObj /\ data["citations"].t = "list"
                THEN data["citations"].v ELSE 0
      conf == IF named THEN FloatVal(Get(data, "confidence", Num(5000))) ELSE 1000
      unknown == ~named \/ ~Truthy(Get(data, "entreprise_connue", JBool(FALSE)))
      label == AlnumOnly(SplitFirst(SplitLast(Lower(vcase.domain), "@"), "."))
      match == /\ named /\ label # <<>>
               /\ IsSubstr(label, AlnumOnly(Lower(vout.res.validated.s)))
  IN (IF unknown THEN 3 * conf ELSE 10 * conf)
     + 2500 * (IF listed < 4 THEN listed ELSE 4)
     + (IF match THEN 10000 ELSE 0)

\* the outcome went through _calibrate
Calibrated(o) == vout.called /\ o.source # "error"

C21_WitnessExact ==
  /\ Returned /\ IsCompany /\ Calibrated(vout.res)
  /\ CompanyRaw = 70000
  /\ vout.res.confidence = 70

\* C22: clean() waits for the row tasks first and for the saver second: it is
\* past gather only when every row task has finished, and it logs completion
\* and returns the summary only when, besides, _save_loop has returned after
\* its final flush.
C22_AwaitOrder ==
  /\ cleanPc \in {"await_saver", "done"} => \A i \in Rows : pc[i] = "done"
  /\ cleanPc = "done" => saver.pc = "done" /\ out.st = "complete"
  /\ (cleanPc = "gather" /\ Rows # {}) => saver.pc # "none"

\* clean() returned on a full table after the saver made an intermediate
\* persist and its final flush
C22_Witness ==
  /\ cleanPc = "done" /\ Len(df) = MaxRows
  /\ saver.pc = "done" /\ saver.persists > 0
  /\ out.st = "complete" /\ out.over = df

\* ------------------------------------------------------------ row task order
ValidatorEvents ==
  {"name", "name_req", "name_ret", "company", "company_req", "company_ret"}

\* row i did e before its k-th event
Before(i, e, k) == \E j \in 1..(k - 1) : events[i][j] = e

\* C23: within one row, the company validator is called only after the name
\* validator has returned, both calls (from the call to the return) happen
\* while the row holds a permit of the gate, and the permit is released before
\* the row's first write to the DataFrame.
C23_RowOrder ==
  \A i \in Rows :
    /\ \A k \in 1..Len(events[i]) :
         /\ events[i][k] = "company" => Before(i, "name_ret", k)
         /\ events[i][k] \in ValidatorEvents =>
              Before(i, "acquire", k) /\ ~Before(i, "release", k)
         /\ events[i][k] = "write" => Before(i, "release", k)
    /\ pc[i] \in {"name_call", "company_call"} => held[i].acq = held[i].rel + 1
    /\ (\E c \in result_cols : df[i][c] # row[i][c]) => held[i].acq = held[i].rel

\* a row went through both requests and wrote its result
C23_Witness ==
  \E i \in Rows :
    /\ events[i] = <<"acquire", "name", "name_req", "name_ret", "company",
                     "company_req", "company_ret", "release", "write">>
    /\ \E c \in result_cols : df[i][c] # row[i][c]

\* ------------------------------------------------------------ frame of writes
\* the writes row i has made
Writes(ev) == Cardinality({k \in 1..Len(ev) : ev[k] = "write"})

\* C24: the task of row i writes only the ten result columns of row i: a step
\* that changes row i of the DataFrame is the write of row i's own task, it
\* leaves the input columns of row i and every other row as they were, no row
\* is written by two tasks or twice, and no step of _save_loop or write_csv
\* changes the DataFrame.
C24_WriteFrame ==
  [][Started =>
       /\ Len(df') = Len(df)
       /\ \A i \in Rows :
            df'[i] # df[i] =>
              /\ DOMAIN df'[i] = DOMAIN df[i]
              /\ \A c \in DOMAIN df[i] \ result_cols : df'[i][c] = df[i][c]
              /\ \A j \in Rows \ {i} : df'[j] = df[j]
              /\ Writes(events[i]) = 0 /\ Writes(events'[i]) = 1
              /\ \A j \in Rows \ {i} : Writes(events'[j]) = Writes(events[j])
       /\ (saver' # saver \/ out' # out \/ snap' # snap) => df' = df
       /\ \A i \in Rows : Writes(events'[i]) > Writes(events[i]) =>
            \A j \in Rows \ {i} : df'[j] = df[j]]_vars

\* both rows of a table were written by their tasks, the second while a
\* write_csv was running, and the input columns are as loaded
C24_Witness ==
  /\ Len(df) = MaxRows
  /\ \A i \in Rows : Writes(events[i]) = 1 /\ df[i] # row[i]
  /\ \A i \in Rows : InputCols \subseteq DOMAIN df[i]
  /\ \A i \in Rows : \A c \in InputCols : df[i][c] = input.rows[i][c]
  /\ saver.pc = "write" /\ snap # df

\* ------------------------------------------------------------------ seeding
\* no task of a row has run yet
NoneStarted == cleanPc = "gather" /\ \A i \in Rows : events[i] = <<>> /\ pc[i] = "start"

\* C25 as stated: before any row task starts every row carries the ten result
\* columns, a column absent from the input file has its default, and a result
\* column present in the input file keeps the values of the file.
C25_Original ==
  NoneStarted =>
    \A i \in 1..Len(df) :
      /\ result_cols \subseteq DOMAIN df[i]
      /\ \A c \in result_cols :
           df[i][c] = (IF c \in input.cols THEN input.rows[i][c] ELSE Default(c))

\* C25 amended: before any row task starts, every row of the DataFrame carries
\* the ten result columns: a column the table lacks as read_csv loaded it (a
\* column absent from the file, or present with every cell empty) has its
\* default (the empty string, 0.0 for the three confidences), a result column
\* the loaded table has keeps the loaded values, and so does every other
\* column; the copy of the row handed to the task is the same.
C25_Seeding ==
  NoneStarted =>
    LET loaded == read_csv(input) IN
    /\ Len(df) = Len(loaded)
    /\ \A i \in 1..Len(df) :
         /\ DOMAIN df[i] = DOMAIN loaded[i] \cup result_cols
         /\ Cardinality(result_cols) = 10
         /\ \A c \in DOMAIN loaded[i] : df[i][c] = loaded[i][c]
         /\ \A c \in result_cols \ DOMAIN loaded[i] :
              df[i][c] = (IF c \in {"confiance_nom", "confiance_prenom",
                                    "confiance_entreprise"} THEN 0 ELSE Empty)
         /\ row[i] = df[i]

\* a table whose first row came with a tag and whose second row came with an
\* empty tag cell was seeded: the tags are as loaded, the other result columns
\* have their defaults
C25_Witness ==
  /\ NoneStarted /\ Len(df) = MaxRows
  /\ Tag(df, 1) = OldTag /\ Tag(df, MaxRows) = NaN
  /\ \A i \in Rows : df[i]["nom_valide"] = Empty /\ df[i]["confiance_nom"] = 0

\* ------------------------------------------------------- persist in progress
Persisting == saver.pc \in {"write", "final"}

\* a write_csv starts in this step
PersistStarts == out'.st = "writing" /\ (out.st # "writing" \/ saver'.pc # saver.pc)

\* C26: while a write_csv is in progress the event loop is not blocked: a task
\* that was granted a permit, or whose request is outstanding, can be run, up
\* to writing its row, before the write_csv completes; and _save_loop starts
\* no other write_csv until the one in progress has finished.
C26_PersistNotBlocking ==
  /\ [](Persisting =>
          \A i \in Rows :
            \A p \in {"granted", "name_call", "company_call"} :
              pc[i] = p => Runnable(i, p))
  /\ [][(Persisting => ~PersistStarts)
        /\ (PersistStarts => saver.pc \in {"sleep", "flush"})]_vars

\* during one write_csv a waiting row was granted a permit, received both
\* answers and wrote its row, and the write_csv is still running
C26_Witness ==
  /\ saver.pc = "write" /\ out.st = "writing"
  /\ \E i \in Rows :
       /\ Tag(snap, i) = Empty /\ Tag(df, i) # Empty
       /\ snap[i] # df[i]
       /\ events[i] = <<"acquire", "name", "name_req", "name_ret", "company",
                        "company_req", "company_ret", "release", "write">>
       /\ \E j \in Rows : pc[j] = "granted"

\* ------------------------------------------------------------ external calls
\* how often row i did e
Count(i, e) == Cardinality({k \in 1..Len(events[i]) : events[i][k] = e})

\* the external requests of the run so far
Requests ==
  Cardinality({<<i, k>> \in Rows \X (1..9) :
                 k <= Len(events[i]) /\ events[i][k] \in {"name_req", "company_req"}})

\* the name request of row i failed: the validator reported the error
NameFailed(i) ==
  \E k \in 2..Len(events[i]) :
    events[i][k] = "name_ret" /\ events[i][k - 1] = "name_req"
    /\ res[i].n.source = "error"

\* C27: every row has at most one call of the name validator and at most one
\* call of the company validator per run, each call sends at most one request,
\* a call whose request failed sends no other, and a run over N rows sends at
\* most 2N requests.
C27_AtMostOneRequest ==
  /\ \A i \in Rows :
       /\ Count(i, "name") <= 1 /\ Count(i, "company") <= 1
       /\ Count(i, "name_req") <= Count(i, "name")
       /\ Count(i, "company_req") <= Count(i, "company")
       /\ Count(i, "name_ret") <= 1 /\ Count(i, "company_ret") <= 1
       /\ Len(events[i]) <= 9
       /\ NameFailed(i) => pc[i] # "name_call"
  /\ Requests <= 2 * Len(df)

\* both rows of a table sent both requests, the name request of one of them
\* failed: 2N requests
C27_Witness ==
  /\ Len(df) = MaxRows /\ Requests = 2 * MaxRows
  /\ \E i \in Rows : NameFailed(i) /\ pc[i] = "company_call"

\* --------------------------------------------------------------- bookkeeping
\* an intermediate write_csv ends normally in this step
PersistEnds == saver.pc = "write" /\ saver'.pc \in {"sleep", "flush"}

\* the loop wakes in this step and starts no intermediate write_csv
WakeNoPersist ==
  /\ saver.pc = "sleep" /\ saver'.pc \in {"sleep", "final"}
  /\ saver'.late = saver.late /\ saver' # saver

\* C28: after each intermediate persist _save_loop sets its recorded count
\* (processed) to the count it observed on that wake-up and resets last_save;
\* both are unchanged on a wake-up without a persist; the recorded count never
\* decreases and never exceeds the number of processed rows in the DataFrame
\* or in the file just written.
C28_Bookkeeping ==
  /\ [](Started => saver.processed <= Processed(df))
  /\ [][Started =>
          /\ saver'.processed >= saver.processed
          /\ PersistEnds =>
               /\ saver'.processed = saver.new_processed
               /\ saver.new_processed = Processed(snap)
               /\ ~saver'.late
               /\ out'.st = "complete"
               /\ saver'.processed <= Processed(out'.base)
               /\ saver'.processed <= Processed(out'.over)
          /\ ~PersistEnds => saver'.processed = saver.processed
          /\ WakeNoPersist =>
               saver'.processed = saver.processed /\ saver'.late = saver.late]_vars

\* after an intermediate persist the recorded count is the count of the
\* wake-up, below the count of now: a row was written during the write_csv
C28_Witness ==
  /\ saver.pc = "sleep" /\ saver.persists > 0
  /\ saver.processed > 0
  /\ saver.processed = Processed(out.base)
  /\ saver.processed < Processed(df)

\* ------------------------------------------------------------- whole rows
\* the tag column was seeded by clean(): the loaded table had none
TagSeeded ==
  \A i \in 1..Len(input.rows) : "source_validation" \notin DOMAIN read_csv(input)[i]

\* the result columns of r are those of the outcomes n, p, c and expl
SetFrom(r, n, p, c, expl) ==
  /\ r["nom_valide"] = n.validated /\ r["confiance_nom"] = n.confidence
  /\ r["prenom_valide"] = p.validated /\ r["confiance_prenom"] = p.confidence
  /\ r["raison_sociale_validee"] = c.validated
  /\ r["confiance_entreprise"] = c.confidence
  /\ r["entreprise_citations"] = (IF c.source = "" THEN Empty ELSE Str(<<c.source>>))
  /\ r["entreprise_explication"] =
       (IF c.explanation = "" THEN Empty ELSE Str(<<c.explanation>>))
  /\ r["name_explication"] = (IF expl = "" THEN Empty ELSE Str(<<expl>>))
  /\ r["source_validation"] = Str(<<"nom:", n.source>>)

\* the result columns of r are those of some outcome of the two validators on
\* row i
SetFromOutcomes(i, r) ==
  \E rn \in PipelineNameResponses, rc \in PipelineCompanyResponses :
    LET email == row[i][email_col]
        domain == IF isinstance_str(email) /\ Positions(email.s, "@") # {}
                  THEN SplitLast(email.s, "@") ELSE <<>>
        o == NameValidator_validate(row[i][nom_col], row[i][prenom_col], email,
                                    settings.client, rn)
        c == CompanyValidator_validate(row[i][entreprise_col], domain,
                                       settings.client, rc)
    IN ~o.raised /\ SetFrom(r, o.n, o.p, c.res, o.expl)

\* C29: at every point where the event loop can switch tasks, a row whose tag
\* is non-empty, in a DataFrame whose tag column clean() seeded, has its nine
\* other result columns set from the outcomes of its validators: the tag is
\* written in the same uninterrupted run as the other columns, so the count of
\* processed rows never counts a half-written row.
C29_NoHalfWrittenRow ==
  /\ [](TagSeeded =>
          \A i \in Rows :
            Tag(df, i) # Empty <=> (pc[i] = "done" /\ Writes(events[i]) = 1))
  /\ [][(TagSeeded /\ Started) =>
          \A i \in Rows :
            /\ (Tag(df, i) = Empty /\ Tag(df', i) # Empty) =>
                 SetFromOutcomes(i, df'[i])
            /\ Tag(df, i) # Empty => df'[i] = df[i]]_vars

\* with a client, a row whose requests were answered is counted with all its
\* columns set, while another row is still waiting for an answer
C29_Witness ==
  /\ TagSeeded /\ settings.client
  /\ \E i \in Rows :
       /\ Tag(df, i) = Str(<<"nom:", "gpt4.1-mini">>)
       /\ df[i]["nom_valide"] = Str(<<"b">>) /\ df[i]["confiance_nom"] > 0
       /\ df[i]["raison_sociale_validee"] = Str(<<"A">>)
       /\ \E j \in Rows : pc[j] \in {"name_call", "company_call"}
  /\ saver.new_processed = 1

\* ------------------------------------------------------------ tagged input
\* the loaded table has a source_validation column with a tag in some row
TaggedInput ==
  \E i \in 1..Len(input.rows) :
    /\ "source_validation" \in input.cols
    /\ input.rows[i]["source_validation"] # NaN

\* C30: for an input that already has a source_validation column with tags in
\* some or all rows, clean() still runs a task on every row, and (as long as
\* no task has raised) _save_loop does not make its final persist and return
\* until every task has written its row.
C30_TaggedInput ==
  (TaggedInput /\ saver.pc # "none" /\ \A i \in Rows : pc[i] # "failed") =>
    /\ Len(pc) = Len(input.rows)
    /\ cleanPc = "done" => \A i \in Rows : Writes(events[i]) = 1
    /\ saver.pc \in {"final", "done"} => \A i \in Rows : Writes(events[i]) = 1

\* ------------------------------------------------------------ after the exit
\* clean() has returned or raised
Exited == cleanPc \in {"done", "raised"}

\* C31: once clean() has exited, normally or by raising, no row task and no
\* _save_loop task is left running: no step after the exit writes to the
\* DataFrame or to the output file.
C31_NothingAfterExit ==
  [][Exited => (df' = df /\ out' = out)]_vars

\* ----------------------------------------------------- deterministic service
\* Runs with validators whose outcome depends on the fields of the row only:
\* the service gives every name request the same answer and every company
\* request the same answer. Everything else is as in Spec.
DetNext ==
  \/ CleanStart
  \/ LoadFail
  \/ \E i \in Rows : Acquire(i)
  \/ \E i \in Rows : Resume(i)
  \/ \E i \in Rows : NameReturnWith(i, ScenarioNameResponses)
  \/ \E i \in Rows : CompanyReturnWith(i, ScenarioCompanyResponses)
  \/ SaverWake
  \/ TimePasses
  \/ PersistDone
  \/ FinalFlush
  \/ FinalDone
  \/ PersistFail
  \/ GatherRaise
  \/ GatherDone
  \/ SaverJoin
  \/ SaverJoinRaise

DetSpec == Init /\ [][DetNext]_vars

\* row i of table t as its task writes it with these validators
DetRow(t, i) ==
  LET email == t[i][email_col]
      domain == IF isinstance_str(email) /\ Positions(email.s, "@") # {}
                THEN SplitLast(email.s, "@") ELSE <<>>
      o == NameValidator_validate(t[i][nom_col], t[i][prenom_col], email,
             settings.client, CHOOSE r \in ScenarioNameResponses : TRUE)
      c == CompanyValidator_validate(t[i][entreprise_col], domain,
             settings.client, CHOOSE r \in ScenarioCompanyResponses : TRUE)
  IN WriteRow(t, i, o.n, o.p, c.res, o.expl)[i]

\* the table that the input and the settings determine
Expected ==
  LET t == Seed(read_csv(input)) IN [i \in 1..Len(t) |-> DetRow(t, i)]

\* C32: with deterministic validators, when clean() has returned the
\* DataFrame and the file of the final persist are the same for every
\* interleaving and completion order of the row tasks and the wake-ups of
\* _save_loop: they are the table that the input determines; and the copy of
\* the row a task works from is the row as seeded, whatever the others wrote.
C32_Deterministic ==
  /\ Started /\ saver.pc # "none" => row = Seed(read_csv(input))
  /\ cleanPc = "done" =>
       /\ df = Expected
       /\ out.st = "complete" /\ out.base = Expected /\ out.over = Expected

\* ------------------------------------------------------------- only growing
\* the rows the count of line 74 takes for processed
ProcessedRows(t) == {i \in 1..Len(t) : Tag(t, i) # Empty}

\* the rows a written file marks as processed: a tag cell that is not empty
\* (a missing value is written as an empty cell)
Marked(t) == {i \in 1..Len(t) : Tag(t, i) \notin {Empty, NaN}}

\* C33: the set of processed rows only grows during a run: the count seen by
\* successive wake-ups of _save_loop never decreases and never exceeds the
\* number of rows, and every persisted file marks as processed at least the
\* rows that the previous one marked: a write_csv starts from a DataFrame that
\* holds every mark of the last file, and ends on one that holds every mark
\* it started from.
C33_ProcessedGrows ==
  /\ [](Started =>
          /\ saver.new_processed <= Len(df) /\ Processed(df) <= Len(df)
          /\ out.st = "complete" =>
               /\ Marked(out.base) \subseteq Marked(out.over)
               /\ Marked(out.over) \subseteq Marked(df))
  /\ [][Started =>
          /\ ProcessedRows(df) \subseteq ProcessedRows(df')
          /\ Marked(df) \subseteq Marked(df')
          /\ saver'.new_processed >= saver.new_processed
          /\ saver'.new_processed # saver.new_processed =>
               saver'.new_processed = Processed(df)
          /\ (out.st = "complete" /\ out'.st = "writing") =>
               Marked(out.over) \subseteq Marked(snap')
          /\ (out.st = "writing" /\ out'.st = "writing") => snap' = snap
          /\ (out.st = "writing" /\ out'.st = "complete") =>
               out'.base = snap /\ Marked(snap) \subseteq Marked(out'.over)]_vars

\* a second write_csv is running: the file before it marked one row, the
\* DataFrame it started from marks two
C33_Witness ==
  /\ out.st = "writing" /\ saver.persists = 1
  /\ saver.processed = 1 /\ saver.new_processed = 2
  /\ Cardinality(Marked(snap)) = 2

====
